---------------------------- MODULE Spec2Model ----------------------------
(***************************************************************************)
(* Model of route53_restore.py: the import of a Route 53 JSON backup into  *)
(* a hosted zone (domain gate, apex filter, health-check validation,      *)
(* preflight classification, conflict choice, batched apply).             *)
(*                                                                         *)
(* A DNS name is [base, dots]: the text without its trailing dots and the *)
(* number of trailing dots, which is all that rstrip('.') and + '.' read.  *)
(* A record set is a TLA+ record holding exactly the keys the Python dict *)
(* holds ('HealthCheckId' in record  is  "HealthCheckId" \in DOMAIN r).    *)
(* An optional value (dict.get) is <<>> when absent and <<v>> when set.    *)
(***************************************************************************)
EXTENDS Integers, Sequences, FiniteSets, TLC

VARIABLES
    backup,                   \* the loaded backup file (load_backup_file)
    argZoneId,                \* args.zone_id: <<>> when not given, else <<id>>
    dryRun,                   \* args.dry_run
    zone,                     \* sink: the live record sets of the target zone
    pc,                       \* position of the run in main / import_records
    exitCode,                 \* -1 while running, else the process exit status
    target_zone_id,           \* main: target_zone_id
    records_to_import,        \* main: filter_records(...)
    missing_health_checks,    \* validate_health_checks: id -> affected display names
    records_with_missing_hc,  \* validate_health_checks: the blocked records
    valid_records_to_import,  \* run_preflight_check
    existing_records,         \* get_existing_records: key -> record
    records_to_create,        \* run_preflight_check
    conflicting_records,      \* run_preflight_check
    records_to_skip,          \* run_preflight_check
    user_choice,              \* import_records: "skip" | "overwrite" | "cancel" | "" (unset)
    changes_to_make,          \* import_records
    i,                        \* import_records: the batch loop's index
    submitted,                \* sink: the change batches received, in order
    batchReplies,             \* sink: its reply to each batch, in order
    described,                \* stdout: the batches a dry run printed
    hcReplies,                \* sink: its reply to the lookup made for each candidate
    listCalls,                \* sink: pages of list_resource_record_sets asked for
    listFailed,               \* sink: TRUE once a listing page was answered by an error
    report                    \* main: what the last lines of the run print

vars == <<backup, argZoneId, dryRun, zone, pc, exitCode, target_zone_id,
          records_to_import, missing_health_checks, records_with_missing_hc,
          valid_records_to_import, existing_records, records_to_create,
          conflicting_records, records_to_skip, user_choice, changes_to_make,
          i, submitted, batchReplies, described, hcReplies, listCalls, listFailed,
          report>>

(***************************************************************************)
(* Bounds of the model and constants of the program.                       *)
(***************************************************************************)
MaxRecords == 2
MaxLive == 2
MaxBulk == 300
PageSize == 1
batch_size == 100

Min(a, b) == IF a < b THEN a ELSE b

SeqsUpTo(S, n) == UNION {[1..k -> S] : k \in 0..n}

Range(s) == {s[k] : k \in 1..Len(s)}

Count(s, x) == Cardinality({k \in 1..Len(s) : s[k] = x})

(***************************************************************************)
(* Names, and the two string operations the program applies to them.       *)
(***************************************************************************)
Fqdn(b) == [base |-> b, dots |-> 1]

RStripDot(name) == [name EXCEPT !.dots = 0]

PlusDot(name) == [name EXCEPT !.dots = @ + 1]

(***************************************************************************)
(* The record sets of the model.                                           *)
(***************************************************************************)
RR(v) == [Value |-> v]

RecWww ==
    [Name |-> Fqdn("www.example.com"), Type |-> "A", TTL |-> 300,
     ResourceRecords |-> <<RR("1.1.1.1")>>]

LiveWww ==
    [Name |-> Fqdn("www.example.com"), Type |-> "A", TTL |-> 300,
     ResourceRecords |-> <<RR("2.2.2.2")>>]

RecApi ==
    [Name |-> Fqdn("api.example.com"), Type |-> "A", TTL |-> 60,
     ResourceRecords |-> <<RR("3.3.3.3")>>, SetIdentifier |-> "blue",
     Weight |-> 10, HealthCheckId |-> "hc-1"]

RecMail ==
    [Name |-> Fqdn("example.com"), Type |-> "MX", TTL |-> 300,
     ResourceRecords |-> <<RR("10 mx1.example.com."), RR("20 mx2.example.com.")>>]

RecApexNS ==
    [Name |-> Fqdn("example.com"), Type |-> "NS", TTL |-> 172800,
     ResourceRecords |-> <<RR("ns-1.awsdns-01.org.")>>]

BulkRecord(n) ==
    [Name |-> Fqdn("h" \o ToString(n) \o ".example.com"), Type |-> "A", TTL |-> 300,
     ResourceRecords |-> <<RR("1.1.1.1")>>]

LiveBulk1 ==
    [Name |-> Fqdn("h1.example.com"), Type |-> "A", TTL |-> 60,
     ResourceRecords |-> <<RR("1.1.1.1")>>]

LiveBulk3 ==
    [Name |-> Fqdn("h3.example.com"), Type |-> "A", TTL |-> 60,
     ResourceRecords |-> <<RR("1.1.1.1")>>]

SnapshotPool == {RecWww, RecApi, RecMail, RecApexNS}

LivePool == {LiveWww, RecWww, RecApi}

BulkSizes == {batch_size, batch_size + 1, 250, MaxBulk}

BulkRecords(n) == [k \in 1..n |-> BulkRecord(k)]

(***************************************************************************)
(* The sink's hosted zones: get_hosted_zone answers with the zone's name   *)
(* (trailing dot included), or NoSuchHostedZone.                           *)
(***************************************************************************)
HostedZoneName(id) ==
    CASE id = "Z1" -> <<Fqdn("example.com")>>
      [] id = "Z2" -> <<Fqdn("other.com")>>
      [] OTHER -> <<>>


(***************************************************************************)
(* Dict access: 'f' in record, record.get(f), record.get(f, []).           *)
(***************************************************************************)
Has(record, f) == f \in DOMAIN record

Get(record, f) == IF Has(record, f) THEN <<record[f]>> ELSE <<>>

GetList(record, f) == IF Has(record, f) THEN record[f] ELSE <<>>

Put(dict, key, val) ==
    [x \in (DOMAIN dict) \cup {key} |-> IF x = key THEN val ELSE dict[x]]

Without(dict, key) == [x \in (DOMAIN dict) \ {key} |-> dict[x]]

(***************************************************************************)
(* Pairs of a backup record and a live record of its name and type, for    *)
(* the field-by-field comparison: an alias record, and live records that   *)
(* differ from the backup's in one field.                                  *)
(***************************************************************************)
AliasTo(target, evaluate) ==
    [HostedZoneId |-> "Z35SXDOTRQ7X7K", DNSName |-> Fqdn(target),
     EvaluateTargetHealth |-> evaluate]

RecAlias ==
    [Name |-> Fqdn("www.example.com"), Type |-> "A",
     AliasTarget |-> AliasTo("elb-1.example.net", FALSE)]

LiveMailSwapped ==
    [RecMail EXCEPT !.ResourceRecords =
        <<RR("20 mx2.example.com."), RR("10 mx1.example.com.")>>]

WwwVariants ==
    {RecWww, LiveWww, RecAlias,
     Put(RecWww, "TTL", 600),
     Without(RecWww, "TTL"),
     Put(RecWww, "TrafficPolicyInstanceId", "tp-1")}

MailVariants == {RecMail, LiveMailSwapped}

AliasVariants ==
    {RecAlias, RecWww,
     Put(RecAlias, "AliasTarget", AliasTo("elb-2.example.net", FALSE)),
     Put(RecAlias, "AliasTarget", AliasTo("elb-1.example.net", TRUE))}

ApiVariants ==
    {RecApi,
     Put(RecApi, "Weight", 20),
     Put(RecApi, "HealthCheckId", "hc-2"),
     Without(RecApi, "HealthCheckId"),
     Put(RecApi, "Region", "eu-west-1"),
     Put(RecApi, "GeoLocation", [CountryCode |-> "DE"]),
     Put(RecApi, "Failover", "PRIMARY"),
     Put(RecApi, "MultiValueAnswer", TRUE),
     Put(RecApi, "SetIdentifier", "green"),
     Without(RecApi, "SetIdentifier")}

FieldCases ==
    ({RecWww} \X WwwVariants) \cup ({RecMail} \X MailVariants)
    \cup ({RecAlias} \X AliasVariants) \cup ({RecApi} \X ApiVariants)

(***************************************************************************)
(* The record key f"{Name}|{Type}" or f"{Name}|{Type}|{SetIdentifier}", as *)
(* the tuple of its parts (no Name or Type of the model holds a "|"), and  *)
(* the display name f"{Name} {Type}" + f" (Set: {SetIdentifier})".         *)
(***************************************************************************)
Key(record) ==
    IF Has(record, "SetIdentifier")
    THEN <<record.Name, record.Type, record.SetIdentifier>>
    ELSE <<record.Name, record.Type>>

Display(record) ==
    IF Has(record, "SetIdentifier")
    THEN <<record.Name, record.Type, <<record.SetIdentifier>> >>
    ELSE <<record.Name, record.Type, <<>> >>

(***************************************************************************)
(* filter_records: drop SOA and NS at the zone apex.                       *)
(***************************************************************************)
filter_records(records, zone_name) ==
    LET zone_apex == PlusDot(zone_name)
        Keep(record) == ~(record.Type \in {"SOA", "NS"} /\ record.Name = zone_apex)
    IN  SelectSeq(records, Keep)

(***************************************************************************)
(* validate_health_checks: replies[k] is the sink's answer to the lookup   *)
(* made for records[k] ("exists", "NoSuchHealthCheck", or "ClientError"    *)
(* for any other error code).  The loop appends, in order, every record    *)
(* whose lookup was answered NoSuchHealthCheck to records_with_missing_hc  *)
(* and its display name to the list of its id.                             *)
(***************************************************************************)
HcOutcomes == {"exists", "NoSuchHealthCheck", "ClientError"}

HcIndexes(records) == {k \in 1..Len(records) : Has(records[k], "HealthCheckId")}

\* One health check does not both exist and not exist during a run: the
\* lookups of one id differ only by transient errors.
ConsistentReplies(records, replies) ==
    \A a, b \in DOMAIN replies :
        records[a].HealthCheckId = records[b].HealthCheckId =>
            {replies[a], replies[b]} # {"exists", "NoSuchHealthCheck"}

Lookups(records, replies) ==
    [k \in 1..Len(records) |->
        [record |-> records[k],
         reply |-> IF k \in DOMAIN replies THEN replies[k] ELSE "none"]]

validate_health_checks(records, replies) ==
    LET Missing(l) == l.reply = "NoSuchHealthCheck"
        hits == SelectSeq(Lookups(records, replies), Missing)
        blocked == [k \in 1..Len(hits) |-> hits[k].record]
        ids == {blocked[k].HealthCheckId : k \in 1..Len(blocked)}
        Affected(id) ==
            LET OfId(r) == r.HealthCheckId = id
                rs == SelectSeq(blocked, OfId)
            IN  [k \in 1..Len(rs) |-> Display(rs[k])]
    IN  [missing_health_checks |-> [id \in ids |-> Affected(id)],
         records_with_missing_hc |-> blocked]

(***************************************************************************)
(* run_preflight_check, line 170: r not in records_with_missing_hc is list *)
(* membership by ==.                                                       *)
(***************************************************************************)
RemoveBlocked(records, blocked) ==
    LET NotBlocked(r) == r \notin Range(blocked)
    IN  SelectSeq(records, NotBlocked)

(***************************************************************************)
(* get_existing_records: the paginator's pages, and the dict built from    *)
(* them (existing_records[key] = record, page after page).                 *)
(***************************************************************************)
NumPages(live) ==
    IF Len(live) = 0 THEN 1 ELSE (Len(live) + PageSize - 1) \div PageSize

RECURSIVE IndexFrom(_, _, _)
IndexFrom(live, k, dict) ==
    IF k > Len(live) THEN dict
    ELSE IndexFrom(live, k + 1, Put(dict, Key(live[k]), live[k]))

get_existing_records(live, failed) ==
    IF failed THEN <<>> ELSE IndexFrom(live, 1, <<>>)

(***************************************************************************)
(* compare_records: a difference f"{field}: {old} -> {new}" is the tuple   *)
(* <<field, old, new>>.                                                    *)
(***************************************************************************)
routing_fields ==
    <<"Weight", "Region", "GeoLocation", "Failover", "MultiValueAnswer", "HealthCheckId">>

Values(rrs) == [k \in 1..Len(rrs) |-> rrs[k].Value]

Truthy(opt) == opt # <<>>

AliasDifference(backup_alias, existing_alias) ==
    IF backup_alias = existing_alias THEN <<>>
    ELSE IF Truthy(existing_alias) /\ Truthy(backup_alias)
         THEN << <<"Alias", Get(existing_alias[1], "DNSName"), Get(backup_alias[1], "DNSName")>> >>
    ELSE IF Truthy(existing_alias)
         THEN << <<"Alias", Get(existing_alias[1], "DNSName"), <<"Standard record">> >> >>
    ELSE IF Truthy(backup_alias)
         THEN << <<"Alias", <<"Standard record">>, Get(backup_alias[1], "DNSName")>> >>
    ELSE <<>>

RECURSIVE RoutingDifferences(_, _, _)
RoutingDifferences(backup_record, existing_record, k) ==
    IF k > Len(routing_fields) THEN <<>>
    ELSE LET field == routing_fields[k]
             backup_val == Get(backup_record, field)
             existing_val == Get(existing_record, field)
         IN  (IF backup_val # existing_val
              THEN << <<field, existing_val, backup_val>> >> ELSE <<>>)
             \o RoutingDifferences(backup_record, existing_record, k + 1)

compare_records_unordered(backup_record, existing_record) ==
    LET backup_ttl == Get(backup_record, "TTL")
        existing_ttl == Get(existing_record, "TTL")
        backup_values == GetList(backup_record, "ResourceRecords")
        existing_values == GetList(existing_record, "ResourceRecords")
        backup_alias == Get(backup_record, "AliasTarget")
        existing_alias == Get(existing_record, "AliasTarget")
    IN  (IF backup_ttl # existing_ttl
         THEN << <<"TTL", existing_ttl, backup_ttl>> >> ELSE <<>>)
        \o (IF Range(backup_values) # Range(existing_values)
            THEN << <<"Values", Values(existing_values), Values(backup_values)>> >>
            ELSE <<>>)
        \o AliasDifference(backup_alias, existing_alias)
        \o RoutingDifferences(backup_record, existing_record, 1)

compare_records(backup_record, existing_record) ==
    LET backup_ttl == Get(backup_record, "TTL")
        existing_ttl == Get(existing_record, "TTL")
        backup_values == GetList(backup_record, "ResourceRecords")
        existing_values == GetList(existing_record, "ResourceRecords")
        backup_alias == Get(backup_record, "AliasTarget")
        existing_alias == Get(existing_record, "AliasTarget")
    IN  (IF backup_ttl # existing_ttl
         THEN << <<"TTL", existing_ttl, backup_ttl>> >> ELSE <<>>)
        \o (IF backup_values # existing_values
            THEN << <<"Values", Values(existing_values), Values(backup_values)>> >>
            ELSE <<>>)
        \o AliasDifference(backup_alias, existing_alias)
        \o RoutingDifferences(backup_record, existing_record, 1)

(***************************************************************************)
(* run_preflight_check, lines 176-212: the classification loop, which      *)
(* appends each record, in order, to the one list its case names.          *)
(***************************************************************************)
Exists(record, existing) == Key(record) \in DOMAIN existing

Differences(record, existing) == compare_records(record, existing[Key(record)])

Classify(records, existing) ==
    LET IsCreate(r) == ~Exists(r, existing)
        IsConflict(r) == Exists(r, existing) /\ Differences(r, existing) # <<>>
        IsSkip(r) == Exists(r, existing) /\ Differences(r, existing) = <<>>
        create == SelectSeq(records, IsCreate)
        conflict == SelectSeq(records, IsConflict)
        skip == SelectSeq(records, IsSkip)
    IN  [records_to_create |-> create,
         conflicting_records |->
             [k \in 1..Len(conflict) |->
                 [record |-> conflict[k], existing |-> existing[Key(conflict[k])],
                  differences |-> Differences(conflict[k], existing),
                  key |-> Key(conflict[k]), display_name |-> Display(conflict[k])]],
         records_to_skip |->
             [k \in 1..Len(skip) |->
                 [record |-> skip[k], key |-> Key(skip[k]),
                  display_name |-> Display(skip[k])]]]

(***************************************************************************)
(* main, lines 416 and 425/442: whether --zone-id was given (a Python      *)
(* truth test: None and '' are both false), and the domain check.          *)
(***************************************************************************)
ZoneIdGiven(arg) == arg # <<>> /\ arg[1] # ""

\* A gate that only warns: the mismatch never blocks.
DomainMismatchIgnored(target_zone_name, backup_zone_name) == FALSE

DomainMismatch(target_zone_name, backup_zone_name) ==
    target_zone_name # backup_zone_name

(***************************************************************************)
(* get_user_choice_for_conflicts: the values it can return (an answer     *)
(* other than 1, 2 or 3 is asked again), and import_records' handling of   *)
(* the choice (lines 298-304).                                             *)
(***************************************************************************)
get_user_choice_for_conflicts(conflicts) ==
    IF conflicts = <<>> THEN {"skip"} ELSE {"skip", "overwrite", "cancel"}

\* A dry run that shows the overwrite behaviour.
DryRunChoiceOverwrite == "overwrite"

DryRunChoice == "skip"

\* A cancel that does not return.
CancelFallsThrough(choice) == FALSE

CancelReturns(choice) == choice = "cancel"

(***************************************************************************)
(* import_records, lines 306-322: the final list of changes.               *)
(***************************************************************************)
CreateChange(record) == [Action |-> "CREATE", ResourceRecordSet |-> record]

\* An UPSERT that carries the live record.
UpsertExisting(item) == [Action |-> "UPSERT", ResourceRecordSet |-> item.existing]

UpsertChange(item) == [Action |-> "UPSERT", ResourceRecordSet |-> item.record]

UpsertsBeforeCreates(create, conflicts, choice) ==
    (IF choice = "overwrite"
     THEN [k \in 1..Len(conflicts) |-> UpsertChange(conflicts[k])]
     ELSE <<>>)
    \o [k \in 1..Len(create) |-> CreateChange(create[k])]

ChangesToMake(create, conflicts, choice) ==
    [k \in 1..Len(create) |-> CreateChange(create[k])]
    \o (IF choice = "overwrite"
        THEN [k \in 1..Len(conflicts) |-> UpsertChange(conflicts[k])]
        ELSE <<>>)

(***************************************************************************)
(* import_records, lines 344-369: the batch at loop index k                *)
(* (changes_to_make[k:k + batch_size]), the index after it (range's step;  *)
(* the except branch continues), and the line a dry run prints per change. *)
(***************************************************************************)
\* A slice one entry too long.
BatchOneTooLong(changes, k) ==
    SubSeq(changes, k + 1, Min(k + batch_size + 1, Len(changes)))

Batch(changes, k) == SubSeq(changes, k + 1, Min(k + batch_size, Len(changes)))

\* A loop that a failed batch ends (break instead of continue).
\* main, lines 473-477: the last lines of a run that reached the end of main.
\* A dry run prints one fixed line; a live run prints the completion line and
\* "Imported {len(records_to_import)} records into zone {target_zone_id}".
EndOfRunReport(dry_run, records, zone_id) ==
    IF dry_run
    THEN [message |-> "[DRY RUN] No changes were made"]
    ELSE [message |-> "Import completed successfully!",
          imported |-> Len(records),
          zone_id |-> zone_id]

\* import_records, line 352: `if dry_run:` selects the branch that only prints
\* the batch; the else branch calls change_resource_record_sets.
PrintsAndSubmits(dry_run) == FALSE

PrintsOnly(dry_run) == dry_run

NextIndexBreakOnError(k, reply, n) ==
    IF reply = "ClientError" THEN n ELSE k + batch_size

NextIndex(k, reply, n) == k + batch_size

DescribeChange(change) ==
    LET record == change.ResourceRecordSet
    IN  <<change.Action, record.Name, record.Type, Get(record, "SetIdentifier")>>

DescribeBatch(batch) == [k \in 1..Len(batch) |-> DescribeChange(batch[k])]

(***************************************************************************)
(* The sink's change_resource_record_sets: a batch is applied as a whole   *)
(* or not at all; CREATE of a record set that exists is rejected; UPSERT   *)
(* replaces the record set of the same key or adds it.                     *)
(***************************************************************************)
KeysOf(live) == {Key(live[k]) : k \in 1..Len(live)}

ChangeKey(batch, k) == Key(batch[k].ResourceRecordSet)

FirstOfKey(batch, k) == \A m \in 1..(k - 1) : ChangeKey(batch, m) # ChangeKey(batch, k)

LastOfKey(batch, key) ==
    LET ks == {k \in 1..Len(batch) : ChangeKey(batch, k) = key}
    IN  batch[CHOOSE k \in ks : \A m \in ks : m <= k].ResourceRecordSet

Accepts(live, batch) ==
    \A k \in 1..Len(batch) :
        batch[k].Action = "CREATE" =>
            ChangeKey(batch, k) \notin KeysOf(live) /\ FirstOfKey(batch, k)

Apply(live, batch) ==
    LET keys == KeysOf(live)
        changed == {ChangeKey(batch, k) : k \in 1..Len(batch)}
        IsNew(k) == ChangeKey(batch, k) \notin keys /\ FirstOfKey(batch, k)
        news == SelectSeq([k \in 1..Len(batch) |-> k], IsNew)
    IN  [k \in 1..Len(live) |->
            IF Key(live[k]) \in changed THEN LastOfKey(batch, Key(live[k]))
            ELSE live[k]]
        \o [j \in 1..Len(news) |-> LastOfKey(batch, ChangeKey(batch, news[j]))]

BatchReplies(live, batch) ==
    {"ClientError"} \cup (IF Accepts(live, batch) THEN {"ok"} ELSE {})

(***************************************************************************)
(* The runs of the model: a backup of a few record sets against a live     *)
(* zone of a few, a bulk backup of distinct records (several batches), or  *)
(* one record against one live record of its name and type.                *)
(***************************************************************************)
Scenarios ==
    (SeqsUpTo(SnapshotPool, MaxRecords) \X SeqsUpTo(LivePool, MaxLive))
    \cup ({BulkRecords(n) : n \in BulkSizes} \X {<<>>, <<LiveBulk1>>, <<LiveBulk3, LiveBulk1>>})
    \cup {<< <<c[1]>>, <<c[2]>> >> : c \in FieldCases}

\* The command lines and backup headers of the model: no --zone-id, with a
\* backup of zone Z1 or of zone Z2 (whose name is not the backup's); --zone-id
\* naming the backup's zone, a zone of another name, a zone that does not
\* exist; and an empty --zone-id.
Invocations ==
    {[arg |-> <<>>, id |-> "Z1"], [arg |-> <<>>, id |-> "Z2"],
     [arg |-> <<"Z1">>, id |-> "Z1"], [arg |-> <<"Z2">>, id |-> "Z1"],
     [arg |-> <<"Z3">>, id |-> "Z1"], [arg |-> <<"">>, id |-> "Z2"]}

Init ==
    /\ \E sc \in Scenarios, inv \in Invocations :
          /\ backup = [HostedZoneId |-> inv.id,
                       HostedZoneName |-> RStripDot(Fqdn("example.com")),
                       ResourceRecordSets |-> sc[1]]
          /\ zone = sc[2]
          /\ argZoneId = inv.arg
    /\ dryRun \in BOOLEAN
    /\ pc = "verify"
    /\ exitCode = -1
    /\ target_zone_id = ""
    /\ records_to_import = <<>>
    /\ missing_health_checks = <<>>
    /\ records_with_missing_hc = <<>>
    /\ valid_records_to_import = <<>>
    /\ existing_records = <<>>
    /\ records_to_create = <<>>
    /\ conflicting_records = <<>>
    /\ records_to_skip = <<>>
    /\ user_choice = ""
    /\ changes_to_make = <<>>
    /\ i = 0
    /\ submitted = <<>>
    /\ batchReplies = <<>>
    /\ described = <<>>
    /\ hcReplies = <<>>
    /\ listCalls = 0
    /\ listFailed = FALSE
    /\ report = <<>>

Exit(code) == pc' = "done" /\ exitCode' = code

(***************************************************************************)
(* main, lines 416-447: pick the target zone, verify_hosted_zone (any      *)
(* ClientError exits 1), and block the import on a domain mismatch.        *)
(***************************************************************************)
Main_VerifyZone ==
    /\ pc = "verify"
    /\ LET target == IF ZoneIdGiven(argZoneId) THEN argZoneId[1]
                     ELSE backup.HostedZoneId
       IN  /\ target_zone_id' = target
           /\ \E reply \in {HostedZoneName(target), <<>>} :
                 IF reply = <<>>
                 THEN Exit(1)
                 ELSE LET target_zone_name == RStripDot(reply[1])
                      IN  IF DomainMismatch(target_zone_name, backup.HostedZoneName)
                          THEN Exit(1)
                          ELSE pc' = "filter" /\ exitCode' = exitCode
    /\ UNCHANGED <<backup, argZoneId, dryRun, zone, records_to_import,
                   missing_health_checks, records_with_missing_hc,
                   valid_records_to_import, existing_records, records_to_create,
                   conflicting_records, records_to_skip, user_choice,
                   changes_to_make, i, submitted, batchReplies, described,
                   hcReplies, listCalls, listFailed,
                   report>>

(***************************************************************************)
(* main, lines 449-460: the apex filter; nothing left exits 0 (so that     *)
(* import_records never sees an empty list, line 289).                     *)
(***************************************************************************)
Main_Filter ==
    /\ pc = "filter"
    /\ records_to_import' =
           filter_records(backup.ResourceRecordSets, backup.HostedZoneName)
    /\ IF records_to_import' = <<>>
       THEN Exit(0)
       ELSE /\ pc' = IF dryRun THEN "validate" ELSE "confirm"
            /\ exitCode' = exitCode
    /\ UNCHANGED <<backup, argZoneId, dryRun, zone, target_zone_id,
                   missing_health_checks, records_with_missing_hc,
                   valid_records_to_import, existing_records, records_to_create,
                   conflicting_records, records_to_skip, user_choice,
                   changes_to_make, i, submitted, batchReplies, described,
                   hcReplies, listCalls, listFailed,
                   report>>

(***************************************************************************)
(* main, lines 462-468: "Continue? (y/N)"; anything but y/Y exits 0.       *)
(***************************************************************************)
Main_Confirm ==
    /\ pc = "confirm"
    /\ \E yes \in BOOLEAN :
          IF yes THEN pc' = "validate" /\ exitCode' = exitCode ELSE Exit(0)
    /\ UNCHANGED <<backup, argZoneId, dryRun, zone, target_zone_id,
                   records_to_import, missing_health_checks,
                   records_with_missing_hc, valid_records_to_import,
                   existing_records, records_to_create, conflicting_records,
                   records_to_skip, user_choice, changes_to_make, i, submitted,
                   batchReplies, described, hcReplies, listCalls, listFailed,
                   report>>

(***************************************************************************)
(* run_preflight_check, lines 166-170: one lookup per candidate carrying   *)
(* a HealthCheckId, then the removal of the blocked records.               *)
(***************************************************************************)
Preflight_ValidateHealthChecks ==
    /\ pc = "validate"
    /\ \E replies \in [HcIndexes(records_to_import) -> HcOutcomes] :
          LET res == validate_health_checks(records_to_import, replies)
          IN  /\ ConsistentReplies(records_to_import, replies)
              /\ hcReplies' = replies
              /\ missing_health_checks' = res.missing_health_checks
              /\ records_with_missing_hc' = res.records_with_missing_hc
              /\ valid_records_to_import' =
                     RemoveBlocked(records_to_import, res.records_with_missing_hc)
    /\ pc' = "list"
    /\ UNCHANGED <<backup, argZoneId, dryRun, zone, exitCode, target_zone_id,
                   records_to_import, existing_records, records_to_create,
                   conflicting_records, records_to_skip, user_choice,
                   changes_to_make, i, submitted, batchReplies, described,
                   listCalls, listFailed,
                   report>>

(***************************************************************************)
(* run_preflight_check, line 173: get_existing_records.  failAt is the     *)
(* page the sink answers with a ClientError (0: none); the except branch   *)
(* returns {}.                                                             *)
(***************************************************************************)
Preflight_GetExistingRecords ==
    /\ pc = "list"
    /\ \E failAt \in 0..NumPages(zone) :
          /\ listFailed' = (failAt > 0)
          /\ listCalls' = IF failAt > 0 THEN failAt ELSE NumPages(zone)
          /\ existing_records' = get_existing_records(zone, failAt > 0)
    /\ pc' = "classify"
    /\ UNCHANGED <<backup, argZoneId, dryRun, zone, exitCode, target_zone_id,
                   records_to_import, missing_health_checks,
                   records_with_missing_hc, valid_records_to_import,
                   records_to_create, conflicting_records, records_to_skip,
                   user_choice, changes_to_make, i, submitted, batchReplies,
                   described, hcReplies, report>>

(***************************************************************************)
(* run_preflight_check, lines 176-257: the classification.                 *)
(***************************************************************************)
Preflight_Classify ==
    /\ pc = "classify"
    /\ LET res == Classify(valid_records_to_import, existing_records)
       IN  /\ records_to_create' = res.records_to_create
           /\ conflicting_records' = res.conflicting_records
           /\ records_to_skip' = res.records_to_skip
    /\ pc' = "choice"
    /\ UNCHANGED <<backup, argZoneId, dryRun, zone, exitCode, target_zone_id,
                   records_to_import, missing_health_checks,
                   records_with_missing_hc, valid_records_to_import,
                   existing_records, user_choice, changes_to_make, i, submitted,
                   batchReplies, described, hcReplies, listCalls, listFailed,
                   report>>

(***************************************************************************)
(* import_records, lines 298-304: the conflict choice; cancel returns.     *)
(***************************************************************************)
Import_Choice ==
    /\ pc = "choice"
    /\ \E choice \in (IF dryRun THEN {DryRunChoice}
                      ELSE get_user_choice_for_conflicts(conflicting_records)) :
          /\ user_choice' = choice
          /\ pc' = IF ~dryRun /\ CancelReturns(choice) THEN "finish" ELSE "build"
    /\ UNCHANGED <<backup, argZoneId, dryRun, zone, exitCode, target_zone_id,
                   records_to_import, missing_health_checks,
                   records_with_missing_hc, valid_records_to_import,
                   existing_records, records_to_create, conflicting_records,
                   records_to_skip, changes_to_make, i, submitted, batchReplies,
                   described, hcReplies, listCalls, listFailed,
                   report>>

(***************************************************************************)
(* import_records, lines 306-326: the change list; none returns.           *)
(***************************************************************************)
Import_Build ==
    /\ pc = "build"
    /\ changes_to_make' =
           ChangesToMake(records_to_create, conflicting_records, user_choice)
    /\ pc' = IF changes_to_make' = <<>> THEN "finish" ELSE "batch"
    /\ i' = 0
    /\ UNCHANGED <<backup, argZoneId, dryRun, zone, exitCode, target_zone_id,
                   records_to_import, missing_health_checks,
                   records_with_missing_hc, valid_records_to_import,
                   existing_records, records_to_create, conflicting_records,
                   records_to_skip, user_choice, submitted, batchReplies,
                   described, hcReplies, listCalls, listFailed,
                   report>>

(***************************************************************************)
(* import_records, lines 348-369: one iteration of the batch loop.  A dry  *)
(* run prints the batch; a live run submits it, and a ClientError is       *)
(* printed and the loop continues.                                         *)
(***************************************************************************)
Import_Batch ==
    /\ pc = "batch"
    /\ i < Len(changes_to_make)
    /\ LET batch == Batch(changes_to_make, i)
       IN  IF PrintsOnly(dryRun)
           THEN /\ described' = Append(described, DescribeBatch(batch))
                /\ i' = i + batch_size
                /\ UNCHANGED <<zone, submitted, batchReplies>>
           ELSE \E reply \in BatchReplies(zone, batch) :
                   /\ submitted' = Append(submitted, batch)
                   /\ batchReplies' = Append(batchReplies, reply)
                   /\ zone' = IF reply = "ok" THEN Apply(zone, batch) ELSE zone
                   /\ i' = NextIndex(i, reply, Len(changes_to_make))
                   /\ UNCHANGED described
    /\ pc' = IF i' < Len(changes_to_make) THEN "batch" ELSE "finish"
    /\ UNCHANGED <<backup, argZoneId, dryRun, exitCode, target_zone_id,
                   records_to_import, missing_health_checks,
                   records_with_missing_hc, valid_records_to_import,
                   existing_records, records_to_create, conflicting_records,
                   records_to_skip, user_choice, changes_to_make, hcReplies,
                   listCalls, listFailed,
                   report>>

(***************************************************************************)
(* main, lines 473-477: import_records returned; the last lines are        *)
(* printed and the run ends with 0.                                        *)
(***************************************************************************)
Main_Finish ==
    /\ pc = "finish"
    /\ report' = EndOfRunReport(dryRun, records_to_import, target_zone_id)
    /\ Exit(0)
    /\ UNCHANGED <<backup, argZoneId, dryRun, zone, target_zone_id,
                   records_to_import, missing_health_checks,
                   records_with_missing_hc, valid_records_to_import,
                   existing_records, records_to_create, conflicting_records,
                   records_to_skip, user_choice, changes_to_make, i, submitted,
                   batchReplies, described, hcReplies, listCalls, listFailed>>

Next ==
    \/ Main_VerifyZone
    \/ Main_Filter
    \/ Main_Confirm
    \/ Preflight_ValidateHealthChecks
    \/ Preflight_GetExistingRecords
    \/ Preflight_Classify
    \/ Import_Choice
    \/ Import_Build
    \/ Import_Batch
    \/ Main_Finish

Spec == Init /\ [][Next]_vars

(***************************************************************************)
(* The runs of a bulk backup, in which the batch loop has one to four      *)
(* iterations.  The program is one sequential process: a step that can be  *)
(* taken is taken (every call of the model returns or raises).             *)
(***************************************************************************)
BulkInit == Init /\ Len(backup.ResourceRecordSets) >= batch_size

BulkFairSpec == BulkInit /\ [][Next]_vars /\ WF_vars(Next)

(***************************************************************************)
(*                              PROPERTIES                                 *)
(***************************************************************************)
RECURSIVE Flatten(_)
Flatten(batches) ==
    IF batches = <<>> THEN <<>> ELSE Head(batches) \o Flatten(Tail(batches))

\* The batches of a change list as the specification words them: consecutive
\* runs of 100 entries, the last one shorter.
ExpectedBatches(changes) ==
    [k \in 1..((Len(changes) + 99) \div 100) |->
        SubSeq(changes, (k - 1) * 100 + 1, Min(k * 100, Len(changes)))]

Sizes(batches) == [k \in 1..Len(batches) |-> Len(batches[k])]

LiveRun == ~dryRun

\* The batch loop has run to its end.
BatchLoopOver == changes_to_make # <<>> /\ pc \in {"finish", "done"}

\* The name the sink gives the explicitly specified target zone, without
\* its trailing dot (<<>> when the zone does not exist).
LiveZoneName(arg) ==
    IF HostedZoneName(arg[1]) = <<>> THEN <<>>
    ELSE <<RStripDot(HostedZoneName(arg[1])[1])>>

DomainGateCase ==
    /\ ZoneIdGiven(argZoneId)
    /\ LiveZoneName(argZoneId) # <<>>
    /\ LiveZoneName(argZoneId)[1] # backup.HostedZoneName

\* C1: when a target zone is given and its live name differs from the
\* backup's zone name, the run is over with exit status 1 as soon as the zone
\* was verified, and at no time has it asked the sink for a listing page or a
\* health check, or submitted a change batch.
C1_DomainGate ==
    DomainGateCase =>
        /\ pc \in {"verify", "done"}
        /\ pc = "done" => exitCode = 1
        /\ listCalls = 0
        /\ DOMAIN hcReplies = {}
        /\ submitted = <<>>

C1_Witness ==
    /\ DomainGateCase
    /\ argZoneId = <<"Z2">>
    /\ backup.ResourceRecordSets # <<>>
    /\ pc = "done"
    /\ exitCode = 1

\* C2: once the sink has answered a listing page with an error, no candidate
\* is classified (the three partitions stay empty) and no change batch is
\* submitted.
C2_ListingFailureFatal ==
    listFailed =>
        /\ records_to_create = <<>>
        /\ conflicting_records = <<>>
        /\ records_to_skip = <<>>
        /\ submitted = <<>>

DuplicateLiveKeys(live) ==
    \E a, b \in 1..Len(live) : a < b /\ Key(live[a]) = Key(live[b])

\* C3: a listing that was read to its end and holds two records of the same
\* key ends the run with an integrity error (exit status 1); the run never
\* goes on with a listing in which the later record replaced the earlier.
C3_DuplicateKeyIsFatal ==
    (listCalls > 0 /\ ~listFailed /\ DuplicateLiveKeys(zone)) =>
        (pc = "done" /\ exitCode = 1)

\* C4: after the planning pass the sizes of the four partitions add up to
\* the number of filtered candidates.
C4_PartitionTotals ==
    pc = "choice" =>
        Len(records_to_create) + Len(records_to_skip) + Len(conflicting_records)
            + Len(records_with_missing_hc) = Len(records_to_import)

\* C5: the batches a live run submits (and those a dry run prints) are
\* consecutive slices of the change list in its order, each of 1 to 100
\* changes; once the loop is over their concatenation is the change list, and
\* a change list of 250 entries gave batches of 100, 100 and 50.
C5_Batching ==
    /\ \A k \in 1..Len(submitted) :
          Len(submitted[k]) >= 1 /\ Len(submitted[k]) <= 100
    /\ \A k \in 1..Len(described) :
          Len(described[k]) >= 1 /\ Len(described[k]) <= 100
    /\ Flatten(submitted) = SubSeq(changes_to_make, 1, Len(Flatten(submitted)))
    /\ Flatten(described) =
           DescribeBatch(SubSeq(changes_to_make, 1, Len(Flatten(described))))
    /\ BatchLoopOver =>
          /\ LiveRun => Flatten(submitted) = changes_to_make
          /\ dryRun => Flatten(described) = DescribeBatch(changes_to_make)
          /\ Len(changes_to_make) = 250 =>
                 Sizes(IF dryRun THEN described ELSE submitted) = <<100, 100, 50>>

C5_Witness ==
    /\ LiveRun
    /\ pc = "done"
    /\ Len(changes_to_make) = 250
    /\ Sizes(submitted) = <<100, 100, 50>>

\* C6: in a live run every step that submits a batch submits the next batch
\* of the change list (so each batch is sent once, in order, whatever the
\* sink answered before), and a run that has entered the batch loop always
\* ends, with exit status 0, having submitted every batch and received an
\* answer, success or failure, to each.
C6_AllBatchesAttempted ==
    /\ [][(LiveRun /\ submitted' # submitted) =>
             /\ Len(submitted) < Len(ExpectedBatches(changes_to_make))
             /\ submitted' = Append(submitted,
                    ExpectedBatches(changes_to_make)[Len(submitted) + 1])]_vars
    /\ (LiveRun /\ pc = "batch") ~>
           (/\ pc = "done"
            /\ exitCode = 0
            /\ submitted = ExpectedBatches(changes_to_make)
            /\ Len(batchReplies) = Len(submitted))

C6_Witness ==
    /\ LiveRun
    /\ pc = "done"
    /\ Len(submitted) = 3
    /\ batchReplies = <<"ClientError", "ok", "ClientError">>

\* What a live run submits for a plan under a choice, and what a dry run
\* prints for a list of batches.
LiveBatches(choice) ==
    ExpectedBatches(ChangesToMake(records_to_create, conflicting_records, choice))

Describe(batches) == [k \in 1..Len(batches) |-> DescribeBatch(batches[k])]

DryRunOver == dryRun /\ pc = "done" /\ user_choice # ""

LiveRunOver == LiveRun /\ pc = "done" /\ user_choice \in {"skip", "overwrite"}

Built ==
    \/ pc = "batch"
    \/ pc \in {"finish", "done"} /\ user_choice \in {"skip", "overwrite"}

Upserts(changes) ==
    LET IsUpsert(c) == c.Action = "UPSERT" IN SelectSeq(changes, IsUpsert)

\* C8: under skip the change list is one CREATE per record to create and
\* nothing else; under overwrite it is those CREATEs followed by one UPSERT
\* per conflict, in order, each carrying the backup's record (a record of the
\* backup file that differs from the live one), never the live record.
C8_PolicyChanges ==
    Built =>
        /\ \A k \in 1..Len(records_to_create) :
              changes_to_make[k] =
                  [Action |-> "CREATE", ResourceRecordSet |-> records_to_create[k]]
        /\ user_choice = "skip" =>
              /\ Len(changes_to_make) = Len(records_to_create)
              /\ Upserts(changes_to_make) = <<>>
        /\ user_choice = "overwrite" =>
              /\ Len(changes_to_make) =
                     Len(records_to_create) + Len(conflicting_records)
              /\ Len(Upserts(changes_to_make)) = Len(conflicting_records)
              /\ \A k \in 1..Len(conflicting_records) :
                    LET change == changes_to_make[Len(records_to_create) + k]
                        item == conflicting_records[k]
                    IN  /\ change.Action = "UPSERT"
                        /\ change.ResourceRecordSet = item.record
                        /\ change.ResourceRecordSet \in Range(backup.ResourceRecordSets)
                        /\ change.ResourceRecordSet # item.existing
                        /\ item.existing = LiveWww =>
                               Values(change.ResourceRecordSet.ResourceRecords)
                                   = <<"1.1.1.1">>

C8_Witness ==
    /\ LiveRun
    /\ pc = "done"
    /\ user_choice = "overwrite"
    /\ \E k \in 1..Len(changes_to_make) :
          /\ changes_to_make[k].Action = "UPSERT"
          /\ Values(GetList(changes_to_make[k].ResourceRecordSet, "ResourceRecords"))
                = <<"1.1.1.1">>
    /\ \E k \in 1..Len(conflicting_records) :
          Values(GetList(conflicting_records[k].existing, "ResourceRecords"))
              = <<"2.2.2.2">>
    /\ batchReplies = <<"ok">>

\* C9: once the choice is cancel no change list is built, no batch is ever
\* submitted, and no step changes the live zone.
C9_AbortNeverApplies ==
    /\ [](user_choice = "cancel" =>
             /\ changes_to_make = <<>>
             /\ submitted = <<>>
             /\ batchReplies = <<>>
             /\ pc \in {"finish", "done"})
    /\ [][user_choice = "cancel" => zone' = zone]_vars

C9_Witness ==
    /\ user_choice = "cancel"
    /\ pc = "done"
    /\ records_to_create # <<>>
    /\ conflicting_records # <<>>

\* C11: a dry run never calls the sink's apply operation: in every state of a
\* dry run no batch has been submitted and no reply received, and no step of
\* a dry run changes the live zone's records, so they are the same after the
\* run as before it.
C11_DryRunNeverApplies ==
    /\ [](dryRun => submitted = <<>> /\ batchReplies = <<>>)
    /\ [][dryRun => zone' = zone /\ submitted' = submitted]_vars

\* A dry run over a non-empty live zone that printed a batch of changes the
\* sink would have accepted, and ended.
C11_Witness ==
    /\ dryRun
    /\ pc = "done"
    /\ zone # <<>>
    /\ described # <<>>
    /\ Accepts(zone, Batch(changes_to_make, 0))

\* The batches the sink answered with a ClientError, and the number of changes
\* in the batches it accepted.
FailedBatches == {k \in 1..Len(batchReplies) : batchReplies[k] = "ClientError"}

SucceededChanges ==
    Len(Flatten([k \in 1..Len(submitted) |->
                    IF batchReplies[k] = "ok" THEN submitted[k] ELSE <<>>]))

\* C12: when a live run that reached its end had one or more failed batches,
\* the end-of-run report does not count the records of the failed batches as
\* imported: the number it reports as imported is at most the number of
\* changes in the batches that succeeded.
C12_FailedBatchesNotImported ==
    (LiveRun /\ pc = "done" /\ report # <<>> /\ FailedBatches # {}) =>
        report.imported <= SucceededChanges

IsCreateChange(change) == change.Action = "CREATE"

IsUpsertChange(change) == change.Action = "UPSERT"

RecordsOf(changes) == [k \in 1..Len(changes) |-> changes[k].ResourceRecordSet]

\* The changes a live run has submitted so far, in the order of submission:
\* batch after batch, and in each batch from first to last.
SubmittedChanges == Flatten(submitted)

\* The records of the sequence are in the order of the filtered snapshot:
\* they are what is left of the filtered snapshot when the records that do
\* not occur in the sequence are struck out.
InSnapshotOrder(records) ==
    LET kept == Range(records)
        Kept(r) == r \in kept
    IN  records = SelectSeq(records_to_import, Kept)

\* C13 as stated: under skip or overwrite, the changes of a live run are
\* submitted in the order of the final change list, and the records of that
\* list follow the order of the filtered snapshot.
C13_SnapshotOrder ==
    (LiveRun /\ user_choice \in {"skip", "overwrite"}) =>
        /\ SubmittedChanges = SubSeq(changes_to_make, 1, Len(SubmittedChanges))
        /\ InSnapshotOrder(RecordsOf(changes_to_make))

\* C13 amended: the changes are submitted in the order of the final change
\* list, which is all the CREATEs followed by all the UPSERTs; the records of
\* the CREATEs follow the order of the filtered snapshot and so do those of
\* the UPSERTs; under skip there are no UPSERTs, so the whole list is in
\* snapshot order.
C13_CreatesThenUpsertsInOrder ==
    (LiveRun /\ user_choice \in {"skip", "overwrite"}) =>
        LET creates == SelectSeq(changes_to_make, IsCreateChange)
            upserts == SelectSeq(changes_to_make, IsUpsertChange)
        IN  /\ SubmittedChanges = SubSeq(changes_to_make, 1, Len(SubmittedChanges))
            /\ changes_to_make = creates \o upserts
            /\ InSnapshotOrder(RecordsOf(creates))
            /\ InSnapshotOrder(RecordsOf(upserts))
            /\ user_choice = "skip" =>
                   upserts = <<>> /\ InSnapshotOrder(RecordsOf(changes_to_make))

\* A live run under overwrite that submitted two UPSERTs after more than a
\* batch of CREATEs, where the first UPSERT's record is the first of the
\* filtered snapshot and the second UPSERT's record comes after it there.
C13_Witness ==
    /\ LiveRun
    /\ pc = "done"
    /\ user_choice = "overwrite"
    /\ Len(SelectSeq(SubmittedChanges, IsCreateChange)) > batch_size
    /\ LET upserts == SelectSeq(SubmittedChanges, IsUpsertChange)
       IN  /\ Len(upserts) = 2
           /\ upserts[1].ResourceRecordSet = records_to_import[1]
           /\ upserts[2].ResourceRecordSet = records_to_import[3]

\* The candidates equal to r whose lookup was answered NoSuchHealthCheck,
\* and those that had no lookup or another answer.
NotFoundLookups(r) ==
    {k \in 1..Len(records_to_import) :
        /\ records_to_import[k] = r
        /\ k \in DOMAIN hcReplies
        /\ hcReplies[k] = "NoSuchHealthCheck"}

OtherLookups(r) ==
    {k \in 1..Len(records_to_import) : records_to_import[k] = r} \ NotFoundLookups(r)

Classified ==
    records_to_create
    \o [k \in 1..Len(conflicting_records) |-> conflicting_records[k].record]
    \o [k \in 1..Len(records_to_skip) |-> records_to_skip[k].record]

\* C10: after the planning pass a candidate is blocked (and listed under its
\* health-check id) exactly when its own lookup was answered
\* NoSuchHealthCheck, and every other candidate is in one of the three
\* classified partitions: counted per record, as many entries are blocked as
\* had that answer, and as many are classified as had not.
C10_BlockedIffNotFound ==
    pc = "choice" =>
        \A r \in Range(records_to_import) :
            /\ Count(records_with_missing_hc, r) = Cardinality(NotFoundLookups(r))
            /\ NotFoundLookups(r) # {} =>
                   /\ r.HealthCheckId \in DOMAIN missing_health_checks
                   /\ Display(r) \in Range(missing_health_checks[r.HealthCheckId])
            /\ Count(Classified, r) = Cardinality(OtherLookups(r))

\* The fields the claim names, and whether two records agree on all of them:
\* an absent field equals only an absent field, an absent value list equals
\* an empty one, and value lists are equal when equal position by position.
ComparedFields ==
    {"TTL", "AliasTarget", "Weight", "Region", "GeoLocation", "Failover",
     "MultiValueAnswer", "HealthCheckId"}

SameFields(a, b) ==
    /\ \A f \in ComparedFields : Get(a, f) = Get(b, f)
    /\ LET av == GetList(a, "ResourceRecords")
           bv == GetList(b, "ResourceRecords")
       IN  Len(av) = Len(bv) /\ \A k \in 1..Len(av) : av[k] = bv[k]

ListingKey(r) ==
    IF "SetIdentifier" \in DOMAIN r
    THEN <<r.Name, r.Type, r.SetIdentifier>>
    ELSE <<r.Name, r.Type>>

KeyAbsent(r) == ListingKey(r) \notin DOMAIN existing_records

KeyPresentSame(r) ==
    ~KeyAbsent(r) /\ SameFields(r, existing_records[ListingKey(r)])

KeyPresentDiffers(r) ==
    ~KeyAbsent(r) /\ ~SameFields(r, existing_records[ListingKey(r)])

\* C14: after the planning pass the three partitions are the non-blocked
\* candidates split by a lookup of the key in the listing: to create are, in
\* order, those whose key is not in the listing; to skip those whose key is
\* in the listing with TTL, value sequence (position by position), alias
\* target, weight, region, geo-location, failover, multivalue flag and
\* health-check id all equal; conflicts those whose key is in the listing
\* with one of these different, a permuted value sequence included.
C14_ClassifiedByKeyAndFields ==
    pc = "choice" =>
        /\ records_to_create = SelectSeq(valid_records_to_import, KeyAbsent)
        /\ [k \in 1..Len(records_to_skip) |-> records_to_skip[k].record]
               = SelectSeq(valid_records_to_import, KeyPresentSame)
        /\ [k \in 1..Len(conflicting_records) |-> conflicting_records[k].record]
               = SelectSeq(valid_records_to_import, KeyPresentDiffers)
        /\ \A k \in 1..Len(conflicting_records) :
               conflicting_records[k].existing
                   = existing_records[ListingKey(conflicting_records[k].record)]

\* The planning pass found the MX record in conflict with a live record that
\* holds the same two values in the other order, and nothing else different.
C14_Witness ==
    /\ pc = "choice"
    /\ \E k \in 1..Len(conflicting_records) :
          /\ conflicting_records[k].record = RecMail
          /\ conflicting_records[k].existing = LiveMailSwapped
          /\ Len(conflicting_records[k].differences) = 1
          /\ conflicting_records[k].differences[1][1] = "Values"

====
